---- MODULE Spec2Model ----
(***************************************************************************)
(* Model of find-orphaned-helmreleases.py: the inventory codec, the        *)
(* ownership-set builder, the orphan detector, main() and the interactive  *)
(* cleanup workflow.                                                       *)
(*                                                                         *)
(* Python strings are sequences of one-character strings, so that split,   *)
(* substring tests, f-string joins, lower(), strip() and sorted() are      *)
(* computed the way the interpreter computes them.                         *)
(***************************************************************************)
EXTENDS Integers, Sequences, FiniteSets, TLC

(***************************************************************************)
(* Bounds of the model.                                                    *)
(***************************************************************************)
\* owner records (Kustomizations) in one kubectl answer
MaxOwners == 1
\* candidate resources (HelmReleases) in one kubectl answer
MaxCandidates == 2
\* orphan records handed directly to cleanup_orphans_interactive
MaxOrphans == 3
\* most inventory entries in one owner listing
MaxEntries == 3

(***************************************************************************)
(* Strings.                                                                *)
(***************************************************************************)
\* Python's None, distinct from every string (also from the empty one)
None == <<"<None>">>

\* the empty string
Empty == <<>>

\* truthiness of an Optional[str]: None and "" are falsy
Truthy(v) == v # None /\ v # Empty

\* "sub in s"
Contains(s, sub) ==
    \E i \in 0..(Len(s) - Len(sub)) : SubSeq(s, i + 1, i + Len(sub)) = sub

\* position of the first occurrence of the character d in s, 0 when absent
RECURSIVE IndexOf(_, _, _)
IndexOf(s, d, i) ==
    IF i > Len(s) THEN 0
    ELSE IF s[i] = d THEN i
    ELSE IndexOf(s, d, i + 1)

\* s.split(d) for a one-character delimiter d
RECURSIVE Split(_, _)
Split(s, d) ==
    LET i == IndexOf(s, d, 1)
    IN  IF i = 0 THEN <<s>>
        ELSE <<SubSeq(s, 1, i - 1)>> \o Split(SubSeq(s, i + 1, Len(s)), d)

\* code points of the characters the model uses
CodePoint(c) ==
    CASE c = " " -> 32
      [] c = "-" -> 45
      [] c = "." -> 46
      [] c = "/" -> 47
      [] c = "D" -> 68
      [] c = "F" -> 70
      [] c = "H" -> 72
      [] c = "N" -> 78
      [] c = "Q" -> 81
      [] c = "R" -> 82
      [] c = "S" -> 83
      [] c = "Y" -> 89
      [] c = "_" -> 95
      [] c = "a" -> 97
      [] c = "b" -> 98
      [] c = "c" -> 99
      [] c = "d" -> 100
      [] c = "e" -> 101
      [] c = "f" -> 102
      [] c = "h" -> 104
      [] c = "i" -> 105
      [] c = "k" -> 107
      [] c = "l" -> 108
      [] c = "m" -> 109
      [] c = "n" -> 110
      [] c = "o" -> 111
      [] c = "p" -> 112
      [] c = "q" -> 113
      [] c = "s" -> 115
      [] c = "t" -> 116
      [] c = "u" -> 117
      [] c = "x" -> 120
      [] c = "y" -> 121

\* s < t for Python strings: lexicographic by code point
RECURSIVE StrLess(_, _)
StrLess(s, t) ==
    IF t = <<>> THEN FALSE
    ELSE IF s = <<>> THEN TRUE
    ELSE IF s[1] = t[1] THEN StrLess(Tail(s), Tail(t))
    ELSE CodePoint(s[1]) < CodePoint(t[1])

\* sorted(S) for a set of strings
RECURSIVE Sorted(_)
Sorted(S) ==
    IF S = {} THEN <<>>
    ELSE LET m == CHOOSE x \in S : \A y \in S \ {x} : StrLess(x, y)
         IN  <<m>> \o Sorted(S \ {m})

\* str.lower() on one character
LowerChar(c) ==
    CASE c = "Y" -> "y"
      [] c = "N" -> "n"
      [] c = "S" -> "s"
      [] c = "Q" -> "q"
      [] OTHER -> c

\* str.lower()
Lower(s) == [i \in 1..Len(s) |-> LowerChar(s[i])]

\* str.strip(): drops leading and trailing whitespace
RECURSIVE Strip(_)
Strip(s) ==
    IF s = <<>> THEN s
    ELSE IF s[1] = " " THEN Strip(Tail(s))
    ELSE IF s[Len(s)] = " " THEN Strip(SubSeq(s, 1, Len(s) - 1))
    ELSE s

\* all sequences over S of length at most n
SeqUpTo(S, n) == UNION {[1..k -> S] : k \in 0..n}

\* the elements of a sequence
Range(s) == {s[i] : i \in 1..Len(s)}

(***************************************************************************)
(* Program constants (string literals of the source).                      *)
(***************************************************************************)
\* "_HelmRelease", the kind marker tested at line 72
KindMarker == <<"_", "H", "e", "l", "m", "R", "e", "l", "e", "a", "s", "e">>

\* "helm.toolkit.fluxcd.io", the group marker tested at line 72
GroupMarker ==
    <<"h", "e", "l", "m", ".", "t", "o", "o", "l", "k", "i", "t", ".",
      "f", "l", "u", "x", "c", "d", ".", "i", "o">>

\* the label keys read at lines 123-124
KsNameLabel == "kustomize.toolkit.fluxcd.io/name"
KsNamespaceLabel == "kustomize.toolkit.fluxcd.io/namespace"

(***************************************************************************)
(* Inventory codec and ownership-set builder.                              *)
(***************************************************************************)
\* f"{ns}/{name}"
ReleaseKey(ns, name) == ns \o <<"/">> \o name

\* DecodeEntry with the name read one token too far (parts[2] of the source)
DecodeEntryThirdToken(entry_id) ==
    IF Contains(entry_id, KindMarker) /\ Contains(entry_id, GroupMarker)
    THEN LET parts == Split(entry_id, "_")
         IN  IF Len(parts) >= 3
             THEN {ReleaseKey(parts[1], parts[3])}
             ELSE {}
    ELSE {}

\* DecodeEntry when one marker is enough
DecodeEntryEitherMarker(entry_id) ==
    IF Contains(entry_id, KindMarker) \/ Contains(entry_id, GroupMarker)
    THEN LET parts == Split(entry_id, "_")
         IN  IF Len(parts) >= 2
             THEN {ReleaseKey(parts[1], parts[2])}
             ELSE {}
    ELSE {}

\* lines 72-79: the keys one entry id adds to managed_releases
DecodeEntry(entry_id) ==
    IF Contains(entry_id, KindMarker) /\ Contains(entry_id, GroupMarker)
    THEN LET parts == Split(entry_id, "_")
         IN  IF Len(parts) >= 2
             THEN {ReleaseKey(parts[1], parts[2])}
             ELSE {}
    ELSE {}

\* lines 66-79: the loop over the entries of one owner record
RECURSIVE ManagedFromEntries(_, _)
ManagedFromEntries(entries, managed) ==
    IF entries = <<>> THEN managed
    ELSE ManagedFromEntries(Tail(entries), managed \cup DecodeEntry(entries[1]))

\* lines 57-81: an owner record is modelled by its list of entry ids
\* (ks.status.inventory.entries[*].id, "" for an entry without id)
RECURSIVE ManagedFromOwners(_, _)
ManagedFromOwners(kss, managed) ==
    IF kss = <<>> THEN managed
    ELSE ManagedFromOwners(Tail(kss), ManagedFromEntries(kss[1].entries, managed))

\* get_managed_helmreleases_from_inventory when only the first owner record is read
get_managed_helmreleases_from_first_owner(kss) ==
    IF kss = <<>> THEN {} ELSE ManagedFromEntries(kss[1].entries, {})

\* lines 52-81
get_managed_helmreleases_from_inventory(kss) == ManagedFromOwners(kss, {})

(***************************************************************************)
(* Orphan detector.                                                        *)
(***************************************************************************)
\* labels.get(key): None when the label is absent
LabelGet(labels, key) == IF key \in DOMAIN labels THEN labels[key] ELSE None

\* HasKustomizeLabels with "or" in place of "and"
HasEitherKustomizeLabel(hr) ==
    \/ Truthy(LabelGet(hr.labels, KsNameLabel))
    \/ Truthy(LabelGet(hr.labels, KsNamespaceLabel))

\* line 127: both owner labels are truthy
HasKustomizeLabels(hr) ==
    /\ Truthy(LabelGet(hr.labels, KsNameLabel))
    /\ Truthy(LabelGet(hr.labels, KsNamespaceLabel))

\* lines 132-139: the orphan record built from a candidate
OrphanRecord(hr) ==
    [name |-> hr.name,
     namespace |-> hr.namespace,
     original_kustomization_name |-> LabelGet(hr.labels, KsNameLabel),
     original_kustomization_namespace |-> LabelGet(hr.labels, KsNamespaceLabel),
     labels |-> hr.labels]

\* lines 127-131: the test that decides whether a candidate is an orphan
IsOrphan(hr, managed) ==
    /\ HasKustomizeLabels(hr)
    /\ ReleaseKey(hr.namespace, hr.name) \notin managed

\* lines 114-141
RECURSIVE find_orphaned_helmreleases(_, _)
find_orphaned_helmreleases(hrs, managed) ==
    IF hrs = <<>> THEN <<>>
    ELSE (IF IsOrphan(hrs[1], managed) THEN <<OrphanRecord(hrs[1])>> ELSE <<>>)
         \o find_orphaned_helmreleases(Tail(hrs), managed)

(***************************************************************************)
(* Inputs: what kubectl and the operator can answer.                       *)
(***************************************************************************)
NsA == <<"a">>
NsB == <<"b">>
NameX == <<"x">>
NameY == <<"y">>
\* a resource name that contains the delimiter of the inventory encoding
NameXY == <<"x", "_", "y">>
OwnerK == <<"k">>
OwnerF == <<"f">>

\* group and kind of a resource that is no HelmRelease
AppsGroup == <<"a", "p", "p", "s">>
DeploymentKind == <<"D", "e", "p", "l", "o", "y", "m", "e", "n", "t">>
HelmReleaseKind == Tail(KindMarker)

\* the id Flux writes for an inventory entry: namespace_name_group_kind
EntryId(ns, name, group, kind) ==
    ns \o <<"_">> \o name \o <<"_">> \o group \o <<"_">> \o kind

\* the owner records kubectl can report, each one the list of its entry ids:
\* an empty inventory, one HelmRelease, another kind next to a HelmRelease, and
\* a HelmRelease whose name contains the delimiter
OwnerPool ==
    { [entries |-> <<>>],
      [entries |-> <<EntryId(NsA, NameX, GroupMarker, HelmReleaseKind)>>],
      [entries |-> <<EntryId(NsA, NameX, AppsGroup, DeploymentKind),
                     EntryId(NsB, NameX, GroupMarker, HelmReleaseKind)>>],
      [entries |-> <<EntryId(NsA, NameXY, GroupMarker, HelmReleaseKind)>>] }

\* a kind whose name starts with the tracked kind
HelmReleaseFKind == HelmReleaseKind \o <<"F">>

\* the entry ids an inventory can hold: two HelmReleases, a resource with the
\* kind marker only, one with the group marker only, a kind that starts with
\* "HelmRelease", and a HelmRelease of another group whose name is the group
\* marker
EntryPool ==
    { EntryId(NsA, NameX, GroupMarker, HelmReleaseKind),
      EntryId(NsB, NameX, GroupMarker, HelmReleaseKind),
      EntryId(NsA, NameY, AppsGroup, HelmReleaseKind),
      EntryId(NsA, NameY, GroupMarker, DeploymentKind),
      EntryId(NsA, NameY, GroupMarker, HelmReleaseFKind),
      EntryId(NsB, GroupMarker, AppsGroup, HelmReleaseKind) }

\* the owner listings that hold the given entries in the given order: in one
\* record, or cut into two records
OwnerListsOf(entries) ==
    { <<[entries |-> entries]>> }
    \cup { << [entries |-> SubSeq(entries, 1, cut)],
              [entries |-> SubSeq(entries, cut + 1, Len(entries))] >> :
           cut \in 0..Len(entries) }

\* the owner listings get_managed_helmreleases_from_inventory can be called on
OwnerLists ==
    { <<>> } \cup UNION { OwnerListsOf(entries) : entries \in SeqUpTo(EntryPool, MaxEntries) }

\* the label maps of the candidates
NoLabels == <<>>
OnlyNameLabel == (KsNameLabel :> OwnerK)
OnlyNamespaceLabel == (KsNamespaceLabel :> OwnerF)
BothLabels == (KsNameLabel :> OwnerK) @@ (KsNamespaceLabel :> OwnerF)
EmptyNameLabel == (KsNameLabel :> Empty) @@ (KsNamespaceLabel :> OwnerF)

Candidate(ns, name, labels) == [namespace |-> ns, name |-> name, labels |-> labels]

\* the HelmReleases kubectl can report
CandidatePool ==
    { Candidate(NsA, NameX, l) :
        l \in {NoLabels, OnlyNameLabel, OnlyNamespaceLabel, BothLabels, EmptyNameLabel} }
    \cup { Candidate(NsB, NameX, BothLabels) }

\* the orphan records a caller can hand to cleanup_orphans_interactive
OrphanPool ==
    { OrphanRecord(Candidate(ns, name, BothLabels)) :
        ns \in {NsA, NsB}, name \in {NameX, NameY} }
    \cup { OrphanRecord(Candidate(NsA, NameXY, BothLabels)) }

\* the command lines argparse accepts (None: option not given)
ArgsPool ==
    [namespace : {None, NsA}, output : {"table", "json", "yaml"}, cleanup : BOOLEAN]

\* the lines the operator can type at a prompt
InputPool ==
    { <<"y">>, <<" ", "Y", " ">>, <<"n">>, <<"s">>, <<"Q", " ">>,
      <<"y", "e", "s">>, <<>> }

\* input(...).lower().strip()
Choice(line) == Strip(Lower(line))

(***************************************************************************)
(* State.                                                                  *)
(***************************************************************************)
VARIABLES
    pc,                \* position in main() / cleanup_orphans_interactive()
    args,              \* parsed command line
    kustomizations,    \* main: list of owner records
    managed_releases,  \* main: set of "namespace/name" keys
    helmreleases,      \* main: list of candidates
    orphans,           \* the orphan list
    rendered,          \* which printer rendered the orphan list
    stderr,            \* warnings written to the diagnostic stream
    calls,             \* the kubectl invocations so far, with their results
    namespaces,        \* cleanup: sorted(by_namespace.keys())
    by_namespace,      \* cleanup: namespace -> its orphans, in list order
    ns_i,              \* cleanup: position of the namespace loop (1-based)
    res_i,             \* cleanup: position of the loop over ns_orphans
    deleted_count,
    skipped_count,
    choice,            \* cleanup: the last answer read at a namespace prompt
    individual_choice, \* cleanup: the last answer read at a per-resource prompt
    out                \* the last message the cleanup printed

vars ==
    <<pc, args, kustomizations, managed_releases, helmreleases, orphans, rendered,
      stderr, calls, namespaces, by_namespace, ns_i, res_i, deleted_count,
      skipped_count, choice, individual_choice, out>>

mainVars == <<kustomizations, managed_releases, helmreleases, rendered, stderr>>
loopVars == <<namespaces, by_namespace, ns_i, res_i, deleted_count, skipped_count>>
inputVars == <<choice, individual_choice>>

\* a kubectl invocation and whether it succeeded
Call(verb, ns, name, ok) == [verb |-> verb, namespace |-> ns, name |-> name, ok |-> ok]

\* a printed message; counts is <<deleted, skipped>> when the message shows them
Msg(m, counts) == [msg |-> m, counts |-> counts]

NoCounts == <<>>

\* the state of the locals before they are assigned
InitLocals ==
    /\ kustomizations = <<>>
    /\ managed_releases = {}
    /\ helmreleases = <<>>
    /\ rendered = "none"
    /\ stderr = {}
    /\ calls = <<>>
    /\ namespaces = <<>>
    /\ by_namespace = <<>>
    /\ ns_i = 0
    /\ res_i = 0
    /\ deleted_count = 0
    /\ skipped_count = 0
    /\ choice = None
    /\ individual_choice = None
    /\ out = Msg("none", NoCounts)

\* the process has parsed its arguments and is about to run main()
Init ==
    /\ pc = "main"
    /\ args \in ArgsPool
    /\ orphans = <<>>
    /\ InitLocals

\* cleanup_orphans_interactive is called on an orphan list
InitCleanup ==
    /\ pc = "cleanup"
    /\ args = [namespace |-> None, output |-> "table", cleanup |-> TRUE]
    /\ orphans \in SeqUpTo(OrphanPool, MaxOrphans)
    /\ InitLocals

\* cleanup_orphans_interactive is called on an orphan list that names no
\* resource twice, as find_orphaned_helmreleases builds it from one listing
InitCleanupListing ==
    /\ InitCleanup
    /\ \A i, j \in 1..Len(orphans) : orphans[i] = orphans[j] => i = j

\* main() has fetched an owner listing and is about to build the inventory
InitInventory ==
    /\ pc = "build_inventory"
    /\ args = [namespace |-> None, output |-> "table", cleanup |-> FALSE]
    /\ kustomizations \in OwnerLists
    /\ calls = <<Call("get_kustomizations", None, None, TRUE)>>
    /\ stderr = (IF kustomizations = <<>>
                 THEN {<<"Warning", "No Kustomizations found">>}
                 ELSE {})
    /\ orphans = <<>>
    /\ managed_releases = {}
    /\ helmreleases = <<>>
    /\ rendered = "none"
    /\ namespaces = <<>>
    /\ by_namespace = <<>>
    /\ ns_i = 0
    /\ res_i = 0
    /\ deleted_count = 0
    /\ skipped_count = 0
    /\ choice = None
    /\ individual_choice = None
    /\ out = Msg("none", NoCounts)

(***************************************************************************)
(* main(): the reconciliation pass.                                        *)
(***************************************************************************)
\* what "kubectl get ... -o json" can produce: a failed command, output that is
\* no JSON, or a JSON document whose items are the given list
GetResults(lists) ==
    {[ok |-> FALSE, json |-> FALSE, items |-> <<>>],
     [ok |-> TRUE, json |-> FALSE, items |-> <<>>]}
    \cup {[ok |-> TRUE, json |-> TRUE, items |-> l] : l \in lists}

\* lines 40-49 and 93-102: the list a get_all_* function returns
GetItems(r) == IF r.ok /\ r.json THEN r.items ELSE <<>>

\* lines 41, 48, 94, 101: what a get_all_* function writes to stderr
GetErrors(r, kind) ==
    IF ~r.ok THEN {<<"Error fetching", kind>>}
    ELSE IF ~r.json THEN {<<"Error parsing JSON", kind>>}
    ELSE {}

\* lines 311-316 with get_all_kustomizations (34-49)
FetchKustomizations ==
    /\ pc = "main"
    /\ \E r \in GetResults(SeqUpTo(OwnerPool, MaxOwners)) :
        /\ calls' = Append(calls, Call("get_kustomizations", None, None, r.ok))
        /\ kustomizations' = GetItems(r)
        /\ stderr' = stderr \cup GetErrors(r, "Kustomizations")
                       \cup (IF GetItems(r) = <<>>
                             THEN {<<"Warning", "No Kustomizations found">>}
                             ELSE {})
    /\ pc' = "build_inventory"
    /\ UNCHANGED <<args, managed_releases, helmreleases, orphans, rendered, out>>
    /\ UNCHANGED loopVars
    /\ UNCHANGED inputVars

\* lines 318-320
BuildInventory ==
    /\ pc = "build_inventory"
    /\ managed_releases' = get_managed_helmreleases_from_inventory(kustomizations)
    /\ pc' = "fetch_helmreleases"
    /\ UNCHANGED <<args, kustomizations, helmreleases, orphans, rendered, stderr,
                   calls, out>>
    /\ UNCHANGED loopVars
    /\ UNCHANGED inputVars

\* lines 86-90: "-n namespace" when a namespace is given, "-A" otherwise; kubectl
\* then lists the HelmReleases of that namespace only
CandidateLists(namespace) ==
    IF Truthy(namespace)
    THEN SeqUpTo({c \in CandidatePool : c.namespace = namespace}, MaxCandidates)
    ELSE SeqUpTo(CandidatePool, MaxCandidates)

\* lines 322-324 with get_all_helmreleases (84-102)
FetchHelmReleases ==
    /\ pc = "fetch_helmreleases"
    /\ \E r \in GetResults(CandidateLists(args.namespace)) :
        /\ calls' = Append(calls, Call("get_helmreleases", args.namespace, None, r.ok))
        /\ helmreleases' = GetItems(r)
        /\ stderr' = stderr \cup GetErrors(r, "HelmReleases")
    /\ pc' = "analyze"
    /\ UNCHANGED <<args, kustomizations, managed_releases, orphans, rendered, out>>
    /\ UNCHANGED loopVars
    /\ UNCHANGED inputVars

\* lines 326-327
Analyze ==
    /\ pc = "analyze"
    /\ orphans' = find_orphaned_helmreleases(helmreleases, managed_releases)
    /\ pc' = "output"
    /\ UNCHANGED <<args, kustomizations, managed_releases, helmreleases, rendered,
                   stderr, calls, out>>
    /\ UNCHANGED loopVars
    /\ UNCHANGED inputVars

\* lines 329-335: one of the three printers renders the orphan list
Output ==
    /\ pc = "output"
    /\ rendered' = args.output
    /\ pc' = "dispatch"
    /\ UNCHANGED <<args, kustomizations, managed_releases, helmreleases, orphans,
                   stderr, calls, out>>
    /\ UNCHANGED loopVars
    /\ UNCHANGED inputVars

\* lines 337-341 when the mode is not consulted
DispatchIgnoringMode ==
    /\ pc = "dispatch"
    /\ IF orphans # <<>>
       THEN pc' = "cleanup" /\ out' = out
       ELSE pc' = "done" /\ out' = Msg("No orphaned HelmReleases to clean up.", NoCounts)
    /\ UNCHANGED <<args, orphans, calls>>
    /\ UNCHANGED mainVars
    /\ UNCHANGED loopVars
    /\ UNCHANGED inputVars

\* lines 337-341
Dispatch ==
    /\ pc = "dispatch"
    /\ IF args.cleanup /\ orphans # <<>>
       THEN pc' = "cleanup" /\ out' = out
       ELSE IF args.cleanup
       THEN pc' = "done" /\ out' = Msg("No orphaned HelmReleases to clean up.", NoCounts)
       ELSE pc' = "done" /\ out' = out
    /\ UNCHANGED <<args, orphans, calls>>
    /\ UNCHANGED mainVars
    /\ UNCHANGED loopVars
    /\ UNCHANGED inputVars

(***************************************************************************)
(* cleanup_orphans_interactive().                                          *)
(***************************************************************************)
\* lines 206-208: the orphans of one namespace, in list order
RECURSIVE GroupOf(_, _)
GroupOf(list, ns) ==
    IF list = <<>> THEN <<>>
    ELSE (IF list[1].namespace = ns THEN <<list[1]>> ELSE <<>>)
         \o GroupOf(Tail(list), ns)

\* lines 206-208: by_namespace
GroupByNamespace(list) ==
    [ns \in {o.namespace : o \in Range(list)} |-> GroupOf(list, ns)]

\* line 210: the order in which the namespaces are walked
NamespaceOrder(keys) == Sorted(keys)

\* line 223: ns_orphans of the namespace the loop is at
ns_orphans == by_namespace[namespaces[ns_i]]

\* line 236: sum(len(by_namespace[n]) for n in namespaces[i:]), i 1-based here
RECURSIVE RemainingCount(_)
RemainingCount(i) ==
    IF i > Len(namespaces) THEN 0
    ELSE Len(by_namespace[namespaces[i]]) + RemainingCount(i + 1)

\* AbortSkipped without the orphans that were not visited
AbortSkippedSoFar == skipped_count

\* line 236: the skipped number of the summary printed when the operator quits
\* at a namespace prompt
AbortSkipped == skipped_count + RemainingCount(ns_i)

\* AbortPc when quit only leaves the current prompt
AbortPcNextPrompt == "ns_prompt"

\* lines 237 and 264: return
AbortPc == "done"

\* DeleteTarget with the two arguments exchanged
DeleteTargetSwapped(orphan) == <<orphan.name, orphan.namespace>>

\* lines 188-191, 242, 266: the (namespace, name) kubectl is asked to delete
DeleteTarget(orphan) == <<orphan.namespace, orphan.name>>

\* CountDelete when a failed delete is not counted at all
CountDeleteFailureUncounted(ok) ==
    /\ deleted_count' = (IF ok THEN deleted_count + 1 ELSE deleted_count)
    /\ skipped_count' = skipped_count

\* CountDelete when the result of the delete call is ignored
CountDeleteIgnoringResult(ok) ==
    /\ deleted_count' = deleted_count + 1
    /\ skipped_count' = skipped_count

\* lines 242-245 and 266-269: the counters after a delete call that returned ok
CountDelete(ok) ==
    /\ deleted_count' = (IF ok THEN deleted_count + 1 ELSE deleted_count)
    /\ skipped_count' = (IF ok THEN skipped_count ELSE skipped_count + 1)

\* lines 186-196: delete_helmrelease(orphan.namespace, orphan.name) returning ok
delete_helmrelease(orphan, ok) ==
    calls' = Append(calls, Call("delete", DeleteTarget(orphan)[1], DeleteTarget(orphan)[2], ok))

\* NextNamespace when the loop starts over after the last namespace
NextNamespaceStartingOver(m, d, s) ==
    /\ res_i' = 0
    /\ ns_i' = (IF ns_i < Len(namespaces) THEN ns_i + 1 ELSE 1)
    /\ pc' = "ns_prompt"
    /\ out' = Msg(m, NoCounts)

\* lines 246, 251, 277 then 222 or 282-286: the namespace is finished; the loop
\* takes the next one or, after the last, prints the final counts (d, s)
NextNamespace(m, d, s) ==
    /\ res_i' = 0
    /\ IF ns_i < Len(namespaces)
       THEN /\ ns_i' = ns_i + 1
            /\ pc' = "ns_prompt"
            /\ out' = Msg(m, NoCounts)
       ELSE /\ ns_i' = ns_i
            /\ pc' = "done"
            /\ out' = Msg("CLEANUP COMPLETE", <<d, s>>)

\* NextResource when a failed delete prompts for the same resource again
NextResourceRetryOnFailure(m, d, s) ==
    IF m # "Failed to delete" /\ res_i >= Len(ns_orphans)
    THEN NextNamespace(m, d, s)
    ELSE /\ res_i' = (IF m = "Failed to delete" THEN res_i ELSE res_i + 1)
         /\ pc' = "res_prompt"
         /\ ns_i' = ns_i
         /\ out' = Msg(m, NoCounts)

\* lines 255, 270, 274: the resource is decided; the inner loop takes the next
\* one or the namespace is finished
NextResource(m, d, s) ==
    IF res_i < Len(ns_orphans)
    THEN /\ res_i' = res_i + 1
         /\ pc' = "res_prompt"
         /\ ns_i' = ns_i
         /\ out' = Msg(m, NoCounts)
    ELSE NextNamespace(m, d, s)

\* DeleteAllFinished when a failed delete ends the loop
DeleteAllFinishedOnFailure(ok) == ~ok \/ res_i >= Len(ns_orphans)

\* lines 241, 246: after a delete of the "yes" branch returned ok, is the loop
\* over ns_orphans finished?
DeleteAllFinished(ok) == res_i >= Len(ns_orphans)

\* lines 201-229: entry, grouping, sorting, up to the first namespace prompt
CleanupStart ==
    /\ pc = "cleanup"
    /\ IF orphans = <<>>
       THEN /\ out' = Msg("No orphaned HelmReleases to clean up.", NoCounts)
            /\ pc' = "done"
            /\ UNCHANGED loopVars
       ELSE /\ by_namespace' = GroupByNamespace(orphans)
            /\ namespaces' = NamespaceOrder(DOMAIN GroupByNamespace(orphans))
            /\ deleted_count' = 0
            /\ skipped_count' = 0
            /\ ns_i' = 1
            /\ res_i' = 0
            /\ out' = Msg("ORPHANED HELMRELEASE CLEANUP", NoCounts)
            /\ pc' = "ns_prompt"
    /\ UNCHANGED <<args, orphans, calls>>
    /\ UNCHANGED mainVars
    /\ UNCHANGED inputVars

\* lines 232-237: quit at the namespace prompt
NsQuit ==
    /\ pc = "ns_prompt"
    /\ \E line \in InputPool :
        /\ Choice(line) = <<"q">>
        /\ choice' = Choice(line)
    /\ individual_choice' = individual_choice
    /\ out' = Msg("Cleanup aborted by user.", <<deleted_count, AbortSkipped>>)
    /\ pc' = AbortPc
    /\ UNCHANGED <<args, orphans, calls>>
    /\ UNCHANGED mainVars
    /\ UNCHANGED loopVars

\* lines 239-241: yes at the namespace prompt starts the loop over ns_orphans
NsYes ==
    /\ pc = "ns_prompt"
    /\ \E line \in InputPool :
        /\ Choice(line) = <<"y">>
        /\ choice' = Choice(line)
    /\ individual_choice' = individual_choice
    /\ out' = Msg("Deleting all HelmReleases in namespace", NoCounts)
    /\ pc' = "delete_all"
    /\ res_i' = 1
    /\ UNCHANGED <<args, orphans, calls, namespaces, by_namespace, ns_i,
                   deleted_count, skipped_count>>
    /\ UNCHANGED mainVars

\* lines 241-246: one iteration of the loop of the "yes" branch
DeleteAll ==
    /\ pc = "delete_all"
    /\ \E ok \in BOOLEAN :
        /\ delete_helmrelease(ns_orphans[res_i], ok)
        /\ CountDelete(ok)
        /\ IF DeleteAllFinished(ok)
           THEN NextNamespace(IF ok THEN "Deleted" ELSE "Failed to delete",
                              deleted_count', skipped_count')
           ELSE /\ res_i' = res_i + 1
                /\ pc' = "delete_all"
                /\ ns_i' = ns_i
                /\ out' = Msg(IF ok THEN "Deleted" ELSE "Failed to delete", NoCounts)
    /\ UNCHANGED <<args, orphans, namespaces, by_namespace>>
    /\ UNCHANGED mainVars
    /\ UNCHANGED inputVars

\* NsNo when the namespace is counted as one skipped resource
NsNoCountsOne ==
    /\ pc = "ns_prompt"
    /\ \E line \in InputPool :
        /\ Choice(line) = <<"n">>
        /\ choice' = Choice(line)
    /\ individual_choice' = individual_choice
    /\ skipped_count' = skipped_count + 1
    /\ deleted_count' = deleted_count
    /\ NextNamespace("Skipping namespace", deleted_count', skipped_count')
    /\ UNCHANGED <<args, orphans, calls, namespaces, by_namespace>>
    /\ UNCHANGED mainVars

\* lines 248-251: no at the namespace prompt
NsNo ==
    /\ pc = "ns_prompt"
    /\ \E line \in InputPool :
        /\ Choice(line) = <<"n">>
        /\ choice' = Choice(line)
    /\ individual_choice' = individual_choice
    /\ skipped_count' = skipped_count + Len(ns_orphans)
    /\ deleted_count' = deleted_count
    /\ NextNamespace("Skipping namespace", deleted_count', skipped_count')
    /\ UNCHANGED <<args, orphans, calls, namespaces, by_namespace>>
    /\ UNCHANGED mainVars

\* lines 253-260: select at the namespace prompt enters the per-resource loop
NsSelect ==
    /\ pc = "ns_prompt"
    /\ \E line \in InputPool :
        /\ Choice(line) = <<"s">>
        /\ choice' = Choice(line)
    /\ individual_choice' = individual_choice
    /\ pc' = "res_prompt"
    /\ res_i' = 1
    /\ UNCHANGED <<args, orphans, calls, namespaces, by_namespace, ns_i,
                   deleted_count, skipped_count, out>>
    /\ UNCHANGED mainVars

\* lines 279-280: any other line at the namespace prompt
NsInvalid ==
    /\ pc = "ns_prompt"
    /\ \E line \in InputPool :
        /\ Choice(line) \notin {<<"q">>, <<"y">>, <<"n">>, <<"s">>}
        /\ choice' = Choice(line)
    /\ individual_choice' = individual_choice
    /\ out' = Msg("Invalid choice. Please enter y, n, s, or q.", NoCounts)
    /\ UNCHANGED <<pc, args, orphans, calls>>
    /\ UNCHANGED mainVars
    /\ UNCHANGED loopVars

\* lines 262-264: quit at a per-resource prompt
ResQuit ==
    /\ pc = "res_prompt"
    /\ \E line \in InputPool :
        /\ Choice(line) = <<"q">>
        /\ individual_choice' = Choice(line)
    /\ choice' = choice
    /\ out' = Msg("Cleanup aborted by user.", NoCounts)
    /\ pc' = AbortPc
    /\ UNCHANGED <<args, orphans, calls>>
    /\ UNCHANGED mainVars
    /\ UNCHANGED loopVars

\* lines 265-266: yes at a per-resource prompt issues the delete call
ResYes ==
    /\ pc = "res_prompt"
    /\ \E line \in InputPool :
        /\ Choice(line) = <<"y">>
        /\ individual_choice' = Choice(line)
    /\ choice' = choice
    /\ pc' = "delete_one"
    /\ UNCHANGED <<args, orphans, calls, out>>
    /\ UNCHANGED mainVars
    /\ UNCHANGED loopVars

\* lines 266-270: the delete call of the per-resource "yes" returns
DeleteOne ==
    /\ pc = "delete_one"
    /\ \E ok \in BOOLEAN :
        /\ delete_helmrelease(ns_orphans[res_i], ok)
        /\ CountDelete(ok)
        /\ NextResource(IF ok THEN "Deleted" ELSE "Failed to delete",
                        deleted_count', skipped_count')
    /\ UNCHANGED <<args, orphans, namespaces, by_namespace>>
    /\ UNCHANGED mainVars
    /\ UNCHANGED inputVars

\* lines 271-274: no at a per-resource prompt
ResNo ==
    /\ pc = "res_prompt"
    /\ \E line \in InputPool :
        /\ Choice(line) = <<"n">>
        /\ individual_choice' = Choice(line)
    /\ choice' = choice
    /\ skipped_count' = skipped_count + 1
    /\ deleted_count' = deleted_count
    /\ NextResource("Skipped", deleted_count', skipped_count')
    /\ UNCHANGED <<args, orphans, calls, namespaces, by_namespace>>
    /\ UNCHANGED mainVars

\* ResInvalid when an unknown answer is taken as "no"
ResInvalidTakenAsNo ==
    /\ pc = "res_prompt"
    /\ \E line \in InputPool :
        /\ Choice(line) \notin {<<"q">>, <<"y">>, <<"n">>}
        /\ individual_choice' = Choice(line)
    /\ choice' = choice
    /\ skipped_count' = skipped_count + 1
    /\ deleted_count' = deleted_count
    /\ NextResource("Skipped", deleted_count', skipped_count')
    /\ UNCHANGED <<args, orphans, calls, namespaces, by_namespace>>
    /\ UNCHANGED mainVars

\* lines 275-276: any other line at a per-resource prompt
ResInvalid ==
    /\ pc = "res_prompt"
    /\ \E line \in InputPool :
        /\ Choice(line) \notin {<<"q">>, <<"y">>, <<"n">>}
        /\ individual_choice' = Choice(line)
    /\ choice' = choice
    /\ out' = Msg("Invalid choice. Please enter y, n, or q.", NoCounts)
    /\ UNCHANGED <<pc, args, orphans, calls>>
    /\ UNCHANGED mainVars
    /\ UNCHANGED loopVars

(***************************************************************************)
(* Specifications.                                                         *)
(***************************************************************************)
NextCleanup ==
    \/ CleanupStart
    \/ NsQuit
    \/ NsYes
    \/ DeleteAll
    \/ NsNo
    \/ NsSelect
    \/ NsInvalid
    \/ ResQuit
    \/ ResYes
    \/ DeleteOne
    \/ ResNo
    \/ ResInvalid

Next ==
    \/ FetchKustomizations
    \/ BuildInventory
    \/ FetchHelmReleases
    \/ Analyze
    \/ Output
    \/ Dispatch
    \/ NextCleanup

\* a run of the program
Spec == Init /\ [][Next]_vars

\* a call of cleanup_orphans_interactive on any orphan list
SpecCleanup == InitCleanup /\ [][NextCleanup]_vars

NextInventory == BuildInventory

\* a call of get_managed_helmreleases_from_inventory on any owner listing
SpecInventory == InitInventory /\ [][NextInventory]_vars

\* line 232: the operator types one of the answers the namespace prompt accepts
AcceptedNamespaceInput == NsQuit \/ NsYes \/ NsNo \/ NsSelect

\* line 260: the operator types one of the answers the resource prompt accepts
AcceptedResourceInput == ResQuit \/ ResYes \/ ResNo

\* a call of cleanup_orphans_interactive with an operator who eventually gives
\* an accepted answer at every prompt and delete calls that return
SpecCleanupFair ==
    /\ InitCleanupListing
    /\ [][NextCleanup]_vars
    /\ WF_vars(CleanupStart)
    /\ WF_vars(AcceptedNamespaceInput)
    /\ WF_vars(AcceptedResourceInput)
    /\ WF_vars(DeleteAll)
    /\ WF_vars(DeleteOne)

(***************************************************************************)
(* Vocabulary of the properties.                                           *)
(***************************************************************************)
\* the candidate carries both owner labels, whatever their values
CarriesBothLabels(hr) == {KsNameLabel, KsNamespaceLabel} \subseteq DOMAIN hr.labels

\* the detector has run
Analyzed ==
    pc \in {"output", "dispatch", "cleanup", "ns_prompt", "delete_all", "res_prompt",
            "delete_one", "done"}

\* the cleanup workflow is walking the namespaces
Walking == pc \in {"ns_prompt", "delete_all", "res_prompt", "delete_one"}

\* the detector emitted an orphan record for the candidate
Reported(hr) == OrphanRecord(hr) \in Range(orphans)

\* the delete calls issued so far
DeleteCalls == {i \in 1..Len(calls) : calls[i].verb = "delete"}

\* the operator has quit
Aborted == out.msg = "Cleanup aborted by user."

\* the listing of the owner records failed (transport or decode error)
OwnerListingFailed ==
    \/ <<"Error fetching", "Kustomizations">> \in stderr
    \/ <<"Error parsing JSON", "Kustomizations">> \in stderr

\* the string contains the delimiter of the inventory encoding
HasDelimiter(str) == \E i \in 1..Len(str) : str[i] = "_"

\* the namespaces and names the properties quantify over
NsNames == {NsA, NsB}
ResNames == {NameX, NameY, NameXY}

(***************************************************************************)
(* C1: every delete call issued by cleanup_orphans_interactive targets the *)
(* (namespace, name) of a record of the orphan list it was given, no other *)
(* kubectl call is made during the walk, and the list never changes.       *)
(***************************************************************************)
C1_DeletesWithinSnapshot ==
    /\ [](\A i \in 1..Len(calls) :
            /\ calls[i].verb = "delete"
            /\ \E o \in Range(orphans) :
                 o.namespace = calls[i].namespace /\ o.name = calls[i].name)
    /\ [][orphans' = orphans]_vars

\* two orphans of a three-element list have been deleted and the third was not
C1_Witness ==
    /\ pc = "done"
    /\ Len(orphans) = 3
    /\ Len(calls) = 2
    /\ calls[1].ok /\ calls[2].ok
    /\ \E o \in Range(orphans) :
         \A i \in 1..Len(calls) : <<calls[i].namespace, calls[i].name>> # <<o.namespace, o.name>>

(***************************************************************************)
(* C2: find_orphaned_helmreleases emits an orphan record for a candidate   *)
(* if and only if the candidate carries both owner labels (with any value, *)
(* the empty one included) and its key is absent from the Ownership Set.   *)
(***************************************************************************)
C2_OrphanIffLabelledAndUnowned ==
    Analyzed =>
        \A hr \in Range(helmreleases) :
            Reported(hr) <=>
                /\ CarriesBothLabels(hr)
                /\ ReleaseKey(hr.namespace, hr.name) \notin managed_releases

(***************************************************************************)
(* C3: when listing the owner records fails, get_all_kustomizations        *)
(* returns the empty list, the Ownership Set is empty, the detector still  *)
(* runs and reports every candidate carrying both owner labels, and in     *)
(* cleanup mode each of them is offered for deletion.                      *)
(***************************************************************************)
C3_ListingFailureReportsAllLabelled ==
    OwnerListingFailed =>
        /\ kustomizations = <<>>
        /\ managed_releases = {}
        /\ Analyzed =>
             \A hr \in Range(helmreleases) : CarriesBothLabels(hr) => Reported(hr)
        /\ Walking =>
             \A hr \in Range(helmreleases) :
                 CarriesBothLabels(hr) =>
                     /\ hr.namespace \in Range(namespaces)
                     /\ OrphanRecord(hr) \in Range(by_namespace[hr.namespace])

(***************************************************************************)
(* C4: for every namespace and name without the delimiter, an inventory    *)
(* entry "<namespace>_<name>_helm.toolkit.fluxcd.io_HelmRelease" decodes   *)
(* to the key of (namespace, name), the key is in the Ownership Set, and   *)
(* no candidate with that namespace and name and both owner labels is      *)
(* reported as orphaned.                                                   *)
(***************************************************************************)
C4_InventoriedCandidateNotOrphaned ==
    pc # "main" /\ pc # "build_inventory" =>
        \A ns \in NsNames, name \in ResNames :
            ( /\ ~HasDelimiter(ns)
              /\ ~HasDelimiter(name)
              /\ \E ks \in Range(kustomizations) :
                   EntryId(ns, name, GroupMarker, HelmReleaseKind) \in Range(ks.entries) )
            => /\ DecodeEntry(EntryId(ns, name, GroupMarker, HelmReleaseKind))
                    = {ReleaseKey(ns, name)}
               /\ ReleaseKey(ns, name) \in managed_releases
               /\ Analyzed =>
                    \A hr \in Range(helmreleases) :
                        hr.namespace = ns /\ hr.name = name /\ CarriesBothLabels(hr)
                            => ~Reported(hr)

\* the inventory holds a/x, the labelled candidate a/x was analysed and is no
\* orphan, while another labelled candidate of the same answer is one
C4_Witness ==
    /\ Analyzed
    /\ \E ks \in Range(kustomizations) :
         EntryId(NsA, NameX, GroupMarker, HelmReleaseKind) \in Range(ks.entries)
    /\ Candidate(NsA, NameX, BothLabels) \in Range(helmreleases)
    /\ ~Reported(Candidate(NsA, NameX, BothLabels))
    /\ Reported(Candidate(NsB, NameX, BothLabels))

(***************************************************************************)
(* C5: when the owner-record list is empty or every owner record has an    *)
(* empty inventory, the Ownership Set is empty and every candidate         *)
(* carrying both owner labels is reported, with the declared owner name    *)
(* and namespace equal to the values of its two labels.                    *)
(***************************************************************************)
C5_EmptyInventoryReportsAllLabelled ==
    ( /\ pc # "main" /\ pc # "build_inventory"
      /\ \A ks \in Range(kustomizations) : ks.entries = <<>> )
    => /\ managed_releases = {}
       /\ Analyzed =>
            \A hr \in Range(helmreleases) :
                CarriesBothLabels(hr) =>
                    \E o \in Range(orphans) :
                        /\ o.namespace = hr.namespace
                        /\ o.name = hr.name
                        /\ o.original_kustomization_name = hr.labels[KsNameLabel]
                        /\ o.original_kustomization_namespace = hr.labels[KsNamespaceLabel]

(***************************************************************************)
(* C6: a candidate that lacks the owner-name label or the owner-namespace  *)
(* label is never reported as orphaned, whatever the Ownership Set holds.  *)
(***************************************************************************)
C6_UnlabelledNeverOrphaned ==
    Analyzed =>
        \A hr \in Range(helmreleases) : ~CarriesBothLabels(hr) => ~Reported(hr)

\* candidates with one label only were analysed against the empty Ownership Set
\* next to a labelled one, and only the labelled one was reported
C6_Witness ==
    /\ Analyzed
    /\ managed_releases = {}
    /\ helmreleases = <<Candidate(NsA, NameX, OnlyNameLabel), Candidate(NsA, NameX, BothLabels)>>
    /\ orphans = <<OrphanRecord(Candidate(NsA, NameX, BothLabels))>>

(***************************************************************************)
(* C7: quit is a total, immediate abort: once the operator has quit, no    *)
(* step follows (no prompt, no delete call, no change of the calls made),  *)
(* and every delete call of the run targeted an orphan of a namespace      *)
(* sorting before the namespace N of the quit, or an orphan of N that      *)
(* precedes the one being prompted for in select mode.                     *)
(***************************************************************************)
C7_QuitAbortsEverything ==
    /\ [](Aborted =>
            /\ \A i \in DeleteCalls :
                \/ StrLess(calls[i].namespace, namespaces[ns_i])
                \/ /\ calls[i].namespace = namespaces[ns_i]
                   /\ \E j \in 1..(res_i - 1) : calls[i].name = ns_orphans[j].name
            /\ Cardinality({i \in DeleteCalls : calls[i].namespace = namespaces[ns_i]})
                 <= (IF res_i > 0 THEN res_i - 1 ELSE 0))
    /\ [][~Aborted]_vars

\* the first namespace was deleted as a whole, in the second the first orphan
\* was deleted in select mode and the operator quit at the second
C7_Witness ==
    /\ Aborted
    /\ pc = "done"
    /\ ns_i = 2
    /\ res_i = 2
    /\ Len(ns_orphans) = 2
    /\ Len(calls) = 2
    /\ calls[1].namespace = namespaces[1]
    /\ calls[2].namespace = namespaces[2]

\* the orphans of the namespace of the quit and of the namespaces after it
Unvisited == {i \in 1..Len(orphans) : ~StrLess(orphans[i].namespace, namespaces[ns_i])}

\* the delete calls that succeeded
Succeeded == {i \in DeleteCalls : calls[i].ok}

(***************************************************************************)
(* C8 as stated: after quit at the namespace prompt, as after quit at a    *)
(* per-resource prompt, the orphans not yet visited are counted neither as *)
(* deleted nor as skipped in what the workflow reports.                    *)
(***************************************************************************)
C8_UnvisitedUnrecorded ==
    Aborted =>
        \/ out.counts = NoCounts
        \/ out.counts = <<deleted_count, skipped_count>>

(***************************************************************************)
(* C8 as amended: quit at either prompt ends the workflow and counts no    *)
(* unvisited orphan as deleted; but the summary printed by quit at the     *)
(* namespace prompt counts every orphan of the current and the remaining   *)
(* namespaces as skipped, so that its two numbers add up to the size of    *)
(* the orphan list.                                                        *)
(***************************************************************************)
C8_NamespaceQuitCountsUnvisitedAsSkipped ==
    Aborted =>
        /\ pc = "done"
        /\ deleted_count = Cardinality(Succeeded)
        /\ res_i = 0 =>
             /\ out.counts = <<deleted_count, skipped_count + Cardinality(Unvisited)>>
             /\ out.counts[1] + out.counts[2] = Len(orphans)

\* quit at the prompt of the second namespace after one delete succeeded and
\* one failed in the first; two orphans are unvisited
C8_Witness ==
    /\ Aborted
    /\ res_i = 0
    /\ ns_i = 2
    /\ deleted_count = 1
    /\ skipped_count = 1
    /\ out.counts = <<1, 2>>
    /\ Len(orphans) = 3

(***************************************************************************)
(* C9: every terminating run of the cleanup over a non-empty orphan list   *)
(* ends with a final accounting of the deleted and skipped counts, on all  *)
(* three terminal paths, and an abort is reported distinctly from          *)
(* completion.                                                             *)
(***************************************************************************)
C9_FinalAccountingOnEveryPath ==
    pc = "done" /\ orphans # <<>> =>
        /\ out.counts # NoCounts
        /\ IF deleted_count + skipped_count = Len(orphans)
           THEN out.msg = "CLEANUP COMPLETE"
           ELSE out.msg = "Cleanup aborted by user."

(***************************************************************************)
(* C10: after yes at the prompt of namespace N every step of the delete    *)
(* loop issues the delete call for the next orphan of N in list order,     *)
(* adds exactly one to the deleted count (success) or to the skipped count *)
(* (failure), and goes on with the next orphan of N whatever the result;   *)
(* after the last orphan of N the workflow advances to the next namespace  *)
(* (or completes after the last one).                                      *)
(***************************************************************************)
C10_YesDeletesWholeNamespace ==
    [][ /\ (pc = "ns_prompt" /\ pc' = "delete_all") =>
              res_i' = 1 /\ ns_i' = ns_i /\ calls' = calls
        /\ pc = "delete_all" =>
              /\ Len(calls') = Len(calls) + 1
              /\ SubSeq(calls', 1, Len(calls)) = calls
              /\ LET c == calls'[Len(calls')]
                     o == by_namespace[namespaces[ns_i]][res_i]
                 IN  /\ c.verb = "delete"
                     /\ c.namespace = o.namespace
                     /\ c.name = o.name
                     /\ c.namespace = namespaces[ns_i]
                     /\ deleted_count' = deleted_count + (IF c.ok THEN 1 ELSE 0)
                     /\ skipped_count' = skipped_count + (IF c.ok THEN 0 ELSE 1)
              /\ IF res_i < Len(by_namespace[namespaces[ns_i]])
                 THEN pc' = "delete_all" /\ res_i' = res_i + 1 /\ ns_i' = ns_i
                 ELSE IF ns_i < Len(namespaces)
                 THEN pc' = "ns_prompt" /\ ns_i' = ns_i + 1
                 ELSE pc' = "done" /\ out'.msg = "CLEANUP COMPLETE"
      ]_vars

\* yes in a namespace of two orphans: the first delete failed, the second was
\* issued all the same and succeeded, and the walk is at the next namespace
C10_Witness ==
    /\ pc = "ns_prompt"
    /\ ns_i = 2
    /\ Len(by_namespace[namespaces[1]]) = 2
    /\ Len(calls) = 2
    /\ ~calls[1].ok
    /\ calls[2].ok
    /\ deleted_count = 1
    /\ skipped_count = 1

\* the step appends to calls one delete call for the orphan o
IssuesDeleteFor(o) ==
    /\ Len(calls') = Len(calls) + 1
    /\ SubSeq(calls', 1, Len(calls)) = calls
    /\ calls'[Len(calls')].verb = "delete"
    /\ calls'[Len(calls')].namespace = o.namespace
    /\ calls'[Len(calls')].name = o.name

\* the orphan the per-resource loop is at
CurrentOrphan == by_namespace[namespaces[ns_i]][res_i]

\* the walk moves from the current orphan to the one after it
AdvancesResource ==
    IF res_i < Len(by_namespace[namespaces[ns_i]])
    THEN pc' = "res_prompt" /\ res_i' = res_i + 1 /\ ns_i' = ns_i
    ELSE IF ns_i < Len(namespaces)
    THEN pc' = "ns_prompt" /\ ns_i' = ns_i + 1
    ELSE pc' = "done" /\ out'.msg = "CLEANUP COMPLETE"

(***************************************************************************)
(* C11: in select mode a delete call is issued for exactly the orphans     *)
(* answered yes: a yes is followed by one delete call for that orphan,     *)
(* counted as deleted or skipped by its result; a no issues no call and    *)
(* adds one to the skipped count; no other step of the per-resource loop   *)
(* issues a call. (Three orphans answered yes, no, yes: two calls, one     *)
(* skip.)                                                                  *)
(***************************************************************************)
C11_SelectDeletesExactlyYes ==
    [][ /\ pc = "res_prompt" =>
              /\ calls' = calls
              /\ deleted_count' = deleted_count
              /\ individual_choice' = <<"y">> =>
                     /\ pc' = "delete_one"
                     /\ res_i' = res_i /\ ns_i' = ns_i
                     /\ skipped_count' = skipped_count
              /\ individual_choice' = <<"n">> =>
                     /\ skipped_count' = skipped_count + 1
                     /\ AdvancesResource
              /\ pc' = "delete_one" => individual_choice' = <<"y">>
        /\ pc = "delete_one" =>
              /\ individual_choice = <<"y">>
              /\ IssuesDeleteFor(CurrentOrphan)
              /\ deleted_count' = deleted_count + (IF calls'[Len(calls')].ok THEN 1 ELSE 0)
              /\ skipped_count' = skipped_count + (IF calls'[Len(calls')].ok THEN 0 ELSE 1)
              /\ AdvancesResource
      ]_vars

\* three orphans of one namespace answered yes, no, yes in select mode: the
\* first and the third were deleted, the second was skipped
C11_Witness ==
    /\ pc = "done"
    /\ out.msg = "CLEANUP COMPLETE"
    /\ choice = <<"s">>
    /\ Len(namespaces) = 1
    /\ Len(orphans) = 3
    /\ Cardinality({orphans[i].name : i \in 1..3}) = 3
    /\ Len(calls) = 2
    /\ calls[1].name = orphans[1].name
    /\ calls[2].name = orphans[3].name
    /\ deleted_count = 2
    /\ skipped_count = 1

\* the delete calls that target the (namespace, name) of the orphan o
CallsFor(o) ==
    {i \in DeleteCalls : calls[i].namespace = o.namespace /\ calls[i].name = o.name}

\* the records of the orphan list with the (namespace, name) of the orphan o
RecordsLike(o) ==
    {i \in 1..Len(orphans) : orphans[i].namespace = o.namespace /\ orphans[i].name = o.name}

(***************************************************************************)
(* C12: at most one delete call is issued per record of the orphan list:   *)
(* a delete call, failed or not, is never repeated, and the walk never     *)
(* comes back to a namespace or resource it has decided (the position      *)
(* never decreases and every delete call moves it forward).                *)
(***************************************************************************)
C12_AtMostOneDeletePerRecord ==
    /\ [](/\ \A o \in Range(orphans) : Cardinality(CallsFor(o)) <= Cardinality(RecordsLike(o))
          /\ Len(calls) <= Len(orphans))
    /\ [][ /\ pc' # "done" =>
                \/ ns_i' > ns_i
                \/ ns_i' = ns_i /\ res_i' >= res_i
           /\ pc \in {"delete_all", "delete_one"} =>
                \/ pc' = "done"
                \/ ns_i' > ns_i
                \/ ns_i' = ns_i /\ res_i' > res_i
         ]_vars

\* a run over three orphans completed with one delete call per record, the
\* first of which failed
C12_Witness ==
    /\ pc = "done"
    /\ out.msg = "CLEANUP COMPLETE"
    /\ Len(orphans) = 3
    /\ Len(calls) = 3
    /\ ~calls[1].ok
    /\ \A o \in Range(orphans) : Cardinality(CallsFor(o)) = 1

\* the answers accepted at the namespace prompt and at a per-resource prompt
NsAccepted == {<<"y">>, <<"n">>, <<"s">>, <<"q">>}
ResAccepted == {<<"y">>, <<"n">>, <<"q">>}

\* the step leaves the position of the walk, the calls and the counts alone
SamePlace ==
    /\ pc' = pc
    /\ ns_i' = ns_i
    /\ res_i' = res_i
    /\ calls' = calls
    /\ deleted_count' = deleted_count
    /\ skipped_count' = skipped_count
    /\ orphans' = orphans
    /\ namespaces' = namespaces
    /\ by_namespace' = by_namespace

(***************************************************************************)
(* C13: an answer outside the accepted set (y, n, s, q at the namespace    *)
(* prompt; y, n, q at a per-resource prompt, where s is not accepted)      *)
(* leaves the workflow where it was: the same namespace or resource is     *)
(* prompted for again, no delete call is issued and the counts stay.       *)
(***************************************************************************)
C13_InvalidInputChangesNothing ==
    [][ /\ (pc = "ns_prompt" /\ choice' \notin NsAccepted) => SamePlace
        /\ (pc = "res_prompt" /\ individual_choice' \notin ResAccepted) => SamePlace
      ]_vars

\* "s" was answered at the prompt of the second resource of a namespace, after
\* the first one was deleted, and the same resource is prompted for again
C13_Witness ==
    /\ pc = "res_prompt"
    /\ res_i = 2
    /\ individual_choice = <<"s">>
    /\ out.msg = "Invalid choice. Please enter y, n, or q."
    /\ Len(calls) = 1
    /\ deleted_count = 1
    /\ skipped_count = 0

\* the records of the orphan list that are in namespace ns
RecordsIn(ns) == {i \in 1..Len(orphans) : orphans[i].namespace = ns}

(***************************************************************************)
(* C14: no at the prompt of namespace N issues no delete call, adds the    *)
(* number of orphans of N to the skipped count, leaves the deleted count   *)
(* alone and advances to the next namespace; as every later delete call    *)
(* is for the namespace the walk is then at, no orphan of N is deleted.    *)
(***************************************************************************)
C14_NoSkipsWholeNamespace ==
    [][ /\ (pc = "ns_prompt" /\ choice' = <<"n">>) =>
              /\ calls' = calls
              /\ skipped_count' = skipped_count + Cardinality(RecordsIn(namespaces[ns_i]))
              /\ deleted_count' = deleted_count
              /\ IF ns_i < Len(namespaces)
                 THEN pc' = "ns_prompt" /\ ns_i' = ns_i + 1
                 ELSE pc' = "done" /\ out'.msg = "CLEANUP COMPLETE"
        /\ calls' # calls =>
              /\ calls'[Len(calls')].namespace = namespaces[ns_i]
              /\ ns_i' >= ns_i
      ]_vars

\* no was answered for the first namespace, which has two orphans; the walk is
\* at the prompt of the second namespace and no delete call was issued
C14_Witness ==
    /\ pc = "ns_prompt"
    /\ ns_i = 2
    /\ choice = <<"n">>
    /\ Cardinality(RecordsIn(namespaces[1])) = 2
    /\ skipped_count = 2
    /\ deleted_count = 0
    /\ calls = <<>>

\* the orphans of the namespaces the walk has left behind
DecidedNamespaces ==
    {i \in 1..Len(orphans) : StrLess(orphans[i].namespace, namespaces[ns_i])}

(***************************************************************************)
(* C15: at every prompt the deleted count plus the skipped count is the    *)
(* number of orphans already decided and the deleted count is the number   *)
(* of delete calls that succeeded; when all namespaces have been visited   *)
(* the two reported counts add up to the size of the orphan list.          *)
(***************************************************************************)
C15_CountsAccountForDecided ==
    /\ pc = "ns_prompt" =>
          /\ deleted_count + skipped_count = Cardinality(DecidedNamespaces)
          /\ deleted_count = Cardinality(Succeeded)
    /\ pc = "res_prompt" =>
          /\ deleted_count + skipped_count = Cardinality(DecidedNamespaces) + res_i - 1
          /\ deleted_count = Cardinality(Succeeded)
    /\ (pc = "done" /\ out.msg = "CLEANUP COMPLETE") =>
          /\ out.counts = <<deleted_count, skipped_count>>
          /\ deleted_count = Cardinality(Succeeded)
          /\ out.counts[1] + out.counts[2] = Len(orphans)

\* a completed run over three orphans: one deleted, one whose delete failed and
\* one skipped by the operator
C15_Witness ==
    /\ pc = "done"
    /\ out = Msg("CLEANUP COMPLETE", <<1, 2>>)
    /\ Len(orphans) = 3
    /\ Len(calls) = 2
    /\ Cardinality(Succeeded) = 1

\* no prompt has been answered
NoPromptAnswered == choice = None /\ individual_choice = None

(***************************************************************************)
(* C16: no delete call is ever issued in report-only mode; in cleanup mode *)
(* with an empty orphan list the workflow terminates at once with no       *)
(* prompt and no delete call; the mode, the namespace filter and the       *)
(* output format change only whether the cleanup workflow runs, not which  *)
(* orphans are detected for a given candidate list.                        *)
(***************************************************************************)
C16_ModeOnlyGatesCleanup ==
    /\ [] /\ ~args.cleanup =>
                /\ DeleteCalls = {}
                /\ NoPromptAnswered
                /\ ~Walking /\ pc # "cleanup"
          /\ (args.cleanup /\ orphans = <<>>) =>
                /\ DeleteCalls = {}
                /\ NoPromptAnswered
                /\ ~Walking /\ pc # "cleanup"
          /\ Analyzed =>
                orphans = find_orphaned_helmreleases(helmreleases, managed_releases)
    /\ [][ (pc = "dispatch" /\ (~args.cleanup \/ orphans = <<>>)) =>
              /\ pc' = "done"
              /\ calls' = calls
              /\ args.cleanup =>
                    out' = Msg("No orphaned HelmReleases to clean up.", NoCounts)
         ]_vars

\* a report-only run with a namespace filter and JSON output has finished with
\* orphans to report
C16_Witness ==
    /\ pc = "done"
    /\ ~args.cleanup
    /\ args.namespace = NsA
    /\ args.output = "json"
    /\ rendered = "json"
    /\ orphans # <<>>
    /\ DeleteCalls = {}

\* the inventory has been built
InventoryBuilt == pc # "main" /\ pc # "build_inventory"

\* the entry ids of all records of an owner listing, in order
RECURSIVE AllEntries(_)
AllEntries(kss) ==
    IF kss = <<>> THEN <<>> ELSE kss[1].entries \o AllEntries(Tail(kss))

\* the group and the kind an entry id encodes: its last two tokens
\* (namespace_name_group_kind)
EntryKind(entry_id) ==
    LET parts == Split(entry_id, "_") IN parts[Len(parts)]

EntryGroup(entry_id) ==
    LET parts == Split(entry_id, "_")
    IN  IF Len(parts) >= 2 THEN parts[Len(parts) - 1] ELSE Empty

\* the entry id encodes a resource of the tracked kind
EncodesHelmRelease(entry_id) ==
    EntryKind(entry_id) = HelmReleaseKind /\ EntryGroup(entry_id) = GroupMarker

(***************************************************************************)
(* C17: the codec admits only entries of the tracked kind: every key of    *)
(* the ownership set comes from an entry id that encodes a HelmRelease of  *)
(* the group helm.toolkit.fluxcd.io; an entry of any other kind or group   *)
(* (a kind that merely starts with "HelmRelease", a resource of another    *)
(* group whose name contains the group marker) adds no key.                *)
(***************************************************************************)
C17_OnlyTrackedKindAdmitted ==
    InventoryBuilt =>
        \A key \in managed_releases :
            \E entry_id \in Range(AllEntries(kustomizations)) :
                /\ EncodesHelmRelease(entry_id)
                /\ key \in DecodeEntry(entry_id)

\* the entry id contains both markers
HasBothMarkers(entry_id) ==
    Contains(entry_id, KindMarker) /\ Contains(entry_id, GroupMarker)

\* the owner listing without the entries that lack a marker
WithoutUnmarked(kss) ==
    [i \in 1..Len(kss) |->
        [entries |-> SelectSeq(kss[i].entries, HasBothMarkers)]]

(***************************************************************************)
(* C18: an inventory entry id that does not contain both the kind marker   *)
(* "_HelmRelease" and the group marker "helm.toolkit.fluxcd.io" yields no  *)
(* key: every key of the ownership set is the key of an entry with both    *)
(* markers, and the set is the one built without the unmarked entries.     *)
(***************************************************************************)
C18_MarkersAreNecessary ==
    InventoryBuilt =>
        /\ \A key \in managed_releases :
              \E entry_id \in Range(AllEntries(kustomizations)) :
                  /\ HasBothMarkers(entry_id)
                  /\ LET parts == Split(entry_id, "_")
                     IN  key = ReleaseKey(parts[1], parts[2])
        /\ managed_releases =
              get_managed_helmreleases_from_inventory(WithoutUnmarked(kustomizations))

\* an inventory with an entry that has the kind marker only, one that has the
\* group marker only and a HelmRelease was built: only the HelmRelease is owned
C18_Witness ==
    /\ pc = "fetch_helmreleases"
    /\ EntryId(NsA, NameY, AppsGroup, HelmReleaseKind) \in Range(AllEntries(kustomizations))
    /\ EntryId(NsA, NameY, GroupMarker, DeploymentKind) \in Range(AllEntries(kustomizations))
    /\ EntryId(NsA, NameX, GroupMarker, HelmReleaseKind) \in Range(AllEntries(kustomizations))
    /\ managed_releases = {ReleaseKey(NsA, NameX)}

\* the orderings of a list
Orderings(list) ==
    { [i \in 1..Len(list) |-> list[p[i]]] : p \in Permutations(1..Len(list)) }

\* the owner listings that differ from kss in the order of the entries of the
\* records only
RECURSIVE EntryReorderings(_)
EntryReorderings(kss) ==
    IF kss = <<>> THEN { <<>> }
    ELSE { <<[entries |-> entries]>> \o rest :
             entries \in Orderings(kss[1].entries),
             rest \in EntryReorderings(Tail(kss)) }

\* the owner listings that differ from kss in the order of the records and of
\* their entries only
Reorderings(kss) == UNION { Orderings(list) : list \in EntryReorderings(kss) }

\* the keys decoded from the entries of all records
DecodedKeys(kss) == UNION { DecodeEntry(entry_id) : entry_id \in Range(AllEntries(kss)) }

\* the positions of the entries that decode to a key
DecodedEntries(kss) ==
    {i \in 1..Len(AllEntries(kss)) : DecodeEntry(AllEntries(kss)[i]) # {}}

(***************************************************************************)
(* C19: get_managed_helmreleases_from_inventory returns the union of the   *)
(* keys decoded from all entries of all records: a key decoded from        *)
(* several entries is in the result once, the result is the same for every *)
(* reordering of the records and of their entries, and reading entries     *)
(* whose keys are already present does not change it.                      *)
(***************************************************************************)
C19_OwnershipSetIsUnionOfKeys ==
    InventoryBuilt =>
        /\ managed_releases = DecodedKeys(kustomizations)
        /\ Cardinality(managed_releases) <= Cardinality(DecodedEntries(kustomizations))
        /\ \A kss \in Reorderings(kustomizations) :
              get_managed_helmreleases_from_inventory(kss) = managed_releases
        /\ ManagedFromOwners(kustomizations, managed_releases) = managed_releases
        /\ get_managed_helmreleases_from_inventory(kustomizations \o kustomizations)
              = managed_releases

\* two owner records were read, the second repeating a key of the first: the
\* result holds each key once
C19_Witness ==
    /\ pc = "fetch_helmreleases"
    /\ Len(kustomizations) = 2
    /\ kustomizations[1].entries =
          << EntryId(NsB, NameX, GroupMarker, HelmReleaseKind),
             EntryId(NsA, NameX, GroupMarker, HelmReleaseKind) >>
    /\ kustomizations[2].entries = << EntryId(NsA, NameX, GroupMarker, HelmReleaseKind) >>
    /\ managed_releases = {ReleaseKey(NsA, NameX), ReleaseKey(NsB, NameX)}
    /\ Cardinality(DecodedEntries(kustomizations)) = 3

\* the namespace list is the set of the orphans' namespaces in strictly
\* ascending order
NamespacesAscending ==
    /\ Range(namespaces) = {orphans[i].namespace : i \in 1..Len(orphans)}
    /\ \A i, j \in 1..Len(namespaces) : i < j => StrLess(namespaces[i], namespaces[j])

(***************************************************************************)
(* C20: with an operator who eventually gives an accepted answer at every  *)
(* prompt and delete calls that return, the cleanup workflow eventually    *)
(* terminates; an accepted answer is never asked for again (one decision   *)
(* per namespace, one per orphan), the namespaces are taken in ascending   *)
(* sorted order and the walk never returns to an earlier namespace or      *)
(* resource; an invalid input leaves the workflow at the same prompt.      *)
(***************************************************************************)
C20_WalkTerminatesInOrder ==
    /\ <>(pc = "done")
    /\ [](Walking => /\ NamespacesAscending
                     /\ ns_i \in 1..Len(namespaces)
                     /\ res_i \in 0..Len(by_namespace[namespaces[ns_i]]))
    /\ [][ /\ Walking =>
                \/ pc' = "done" /\ ns_i' = ns_i
                \/ pc' # "done" /\ ns_i' = ns_i + 1 /\ res_i' = 0
                \/ pc' # "done" /\ ns_i' = ns_i /\ res_i' \in {res_i, res_i + 1}
           /\ (pc = "ns_prompt" /\ choice' \in NsAccepted) =>
                \/ pc' = "done"
                \/ pc' = "ns_prompt" /\ ns_i' = ns_i + 1
                \/ pc' \in {"delete_all", "res_prompt"} /\ ns_i' = ns_i /\ res_i' = 1
           /\ (pc = "res_prompt" /\ individual_choice' \in ResAccepted) =>
                \/ pc' = "done"
                \/ pc' = "ns_prompt" /\ ns_i' = ns_i + 1
                \/ pc' = "delete_one" /\ ns_i' = ns_i /\ res_i' = res_i
                \/ pc' = "res_prompt" /\ ns_i' = ns_i /\ res_i' = res_i + 1
           /\ pc \in {"delete_all", "delete_one"} =>
                \/ pc' = "done"
                \/ pc' = "ns_prompt" /\ ns_i' = ns_i + 1
                \/ pc' \in {"delete_all", "res_prompt"} /\ ns_i' = ns_i /\ res_i' = res_i + 1
           /\ (pc = "ns_prompt" /\ choice' \notin NsAccepted) =>
                pc' = pc /\ ns_i' = ns_i /\ res_i' = res_i
           /\ (pc = "res_prompt" /\ individual_choice' \notin ResAccepted) =>
                pc' = pc /\ ns_i' = ns_i /\ res_i' = res_i
         ]_vars

\* the walk over two namespaces has completed: the first was decided resource by
\* resource, the second deleted as a whole
C20_Witness ==
    /\ pc = "done"
    /\ out.msg = "CLEANUP COMPLETE"
    /\ namespaces = <<NsA, NsB>>
    /\ ns_i = 2
    /\ Len(orphans) = 3
    /\ orphans[1].namespace = NsB
    /\ choice = <<"y">>
    /\ individual_choice = <<"n">>

====
